---- MODULE Spec2Model ----
(***************************************************************************)
(* Model of hardware/camera.py: class RealSenseCamera.                     *)
(*                                                                         *)
(* The state is the object's fields (device_id, width, height, fps,        *)
(* pipeline, scale, intrinsics) plus what one call leaves behind for an    *)
(* observer: the driver calls it made, the log records it emitted and its  *)
(* outcome (a return value or the exception raised).  The pyrealsense2     *)
(* driver is the environment: every call draws the attached devices, the   *)
(* outcome of pipeline.start, the driver call that raises (if any) and the *)
(* outcome of wait_for_frames from small sets.                             *)
(*                                                                         *)
(* Lengths are integers: the depth scale is in micrometres per raw unit,   *)
(* so that 0.001 m/unit is 1000 and raw 2000 scales to 2000000 um = 2.0 m. *)
(***************************************************************************)
EXTENDS Integers, Sequences, FiniteSets, TLC

VARIABLES device_id, width, height, fps, pipeline, scale, intrinsics,
          created, acquired, calls, log, result, input

fields == <<device_id, width, height, fps, pipeline, scale, intrinsics>>
vars == <<device_id, width, height, fps, pipeline, scale, intrinsics,
          created, acquired, calls, log, result, input>>

(***************************************************************************)
(* Bounds of the model.                                                    *)
(***************************************************************************)
\* at most this many rs.pipeline() objects are created in one behaviour
MaxPipelines == 2
\* at most this many bundles are returned by one pipeline
MaxAcquires == 2
\* pixels of one frame
NPix == 2

(***************************************************************************)
(* Program constants: the defaults of __init__.                            *)
(***************************************************************************)
DefaultWidth == 640
DefaultHeight == 480
DefaultFps == 30

(***************************************************************************)
(* Python values held by device_id: None, a str or an int.                 *)
(***************************************************************************)
None == [ty |-> "NoneType"]
PyStr(s) == [ty |-> "str", s |-> s]
PyInt(n) == [ty |-> "int", n |-> n]

Digit == <<"0", "1", "2", "3", "4", "5", "6", "7", "8", "9">>

RECURSIVE Decimal(_)
Decimal(n) ==
    IF n < 10 THEN Digit[n + 1]
    ELSE Decimal(n \div 10) \o Digit[(n % 10) + 1]

\* str(x), and the {x} of an f-string
Str(x) ==
    CASE x.ty = "str" -> x.s
      [] x.ty = "int" -> Decimal(x.n)
      [] OTHER -> "None"

(***************************************************************************)
(* The environment: the driver and the devices attached to the host.       *)
(***************************************************************************)
Serials == {"111", "222"}

DeviceName(serial) ==
    CASE serial = "111" -> "D405"
      [] OTHER -> "D435"

RECURSIVE SeqsUpTo(_, _)
SeqsUpTo(S, n) ==
    IF n = 0 THEN {<<>>}
    ELSE LET shorter == SeqsUpTo(S, n - 1)
         IN  shorter \cup {Append(q, x) : q \in shorter, x \in S}

NoDup(q) == \A i, j \in 1..Len(q) : q[i] = q[j] => i = j

\* what ctx.query_devices() can report: the attached devices, in the
\* driver's order
Attached == {q \in SeqsUpTo(Serials, Cardinality(Serials)) : NoDup(q)}

\* the depth scales a device can report, in micrometres per raw unit
Scales == {100, 1000}

\* what pipeline.start(config) can do
StartOutcomes ==
    {[ok |-> TRUE, scale |-> s, reason |-> ""] : s \in Scales}
    \cup {[ok |-> FALSE, scale |-> 0, reason |-> r] :
             r \in {"Device or resource busy", "Couldn't resolve requests"}}

\* raw z16 depth values
RawVals == {2000, 65535}
DepthFrames == [1..NPix -> RawVals]
ColorFrames == {"rgb_a", "rgb_b"}

\* the intrinsics the driver reports for the active color stream profile
DriverIntrinsics(serial, w, h) ==
    [model |-> DeviceName(serial), width |-> w, height |-> h]

(***************************************************************************)
(* Exceptions and return values.                                           *)
(***************************************************************************)
Returned(op, v) == [op |-> op, status |-> "ok", value |-> v]
Raised(op, e) == [op |-> op, status |-> "raise", exc |-> e]

\* raise RuntimeError("No RealSense devices found")
NoDevicesError ==
    [type |-> "RuntimeError", site |-> "connect",
     msg |-> "No RealSense devices found"]

\* raise RuntimeError(f"Could not connect to camera {self.device_id}: {e}")
CouldNotConnectError(id, reason) ==
    [type |-> "RuntimeError", site |-> "connect",
     msg |-> "Could not connect to camera " \o Str(id) \o ": " \o reason]

TimeoutReason == "Frame didn't arrive within 5000"
NotStartedReason == "wait_for_frames cannot be called before start()"

\* an attribute looked up on an object that does not have it
AttributeError(obj, attr) ==
    [type |-> "AttributeError", site |-> "getattr",
     msg |-> "'" \o obj \o "' object has no attribute '" \o attr \o "'"]

(***************************************************************************)
(* get_available_devices: one {'serial', 'name'} dict per device the       *)
(* driver reports, in the driver's order.                                  *)
(***************************************************************************)
GetAvailableDevices(devices) ==
    [i \in 1..Len(devices) |->
        [serial |-> devices[i], name |-> DeviceName(devices[i])]]

(***************************************************************************)
(* connect: the selection of the device.                                   *)
(***************************************************************************)
\* device_serials = [dev['serial'] for dev in available_devices]
DeviceSerials(available) ==
    [i \in 1..Len(available) |-> available[i].serial]

InList(x, list) == \E i \in 1..Len(list) : list[i] = x

IsAvailable_FirstOnly(id, available) ==
    Str(id) = available[1].serial

\* not (str(self.device_id) not in device_serials)
IsAvailable(id, available) ==
    InList(Str(id), DeviceSerials(available))

FirstAvailable_Last(available) ==
    available[Len(available)]

\* available_devices[0]
FirstAvailable(available) ==
    available[1]

\* the value of self.device_id once the if/else of connect is through
SelectDevice(id, available) ==
    IF id = None
    THEN PyStr(FirstAvailable(available).serial)
    ELSE IF IsAvailable(id, available)
         THEN id
         ELSE PyStr(FirstAvailable(available).serial)

NoIdInfo(dev) ==
    [level |-> "INFO", event |-> "no_device_id_using_first_available",
     device |-> dev.serial, name |-> dev.name]

NotFoundWarning(id, available) ==
    [level |-> "WARNING", event |-> "requested_device_not_found",
     requested |-> Str(id), available |-> DeviceSerials(available)]

FallbackInfo(dev) ==
    [level |-> "INFO", event |-> "using_first_available",
     device |-> dev.serial, name |-> dev.name]

ConnectedInfo(id) ==
    [level |-> "INFO", event |-> "connected", device |-> Str(id)]

StartFailedError(reason) ==
    [level |-> "ERROR", event |-> "failed_to_start_pipeline",
     reason |-> reason]

SelectionLog_NoWarning(id, available) ==
    IF id = None
    THEN <<NoIdInfo(FirstAvailable(available))>>
    ELSE IF IsAvailable(id, available)
         THEN <<>>
         ELSE <<FallbackInfo(FirstAvailable(available))>>

\* the records the if/else of connect logs
SelectionLog(id, available) ==
    IF id = None
    THEN <<NoIdInfo(FirstAvailable(available))>>
    ELSE IF IsAvailable(id, available)
         THEN <<>>
         ELSE <<NotFoundWarning(id, available),
                FallbackInfo(FirstAvailable(available))>>

(***************************************************************************)
(* connect: the calls into the driver.  Any of them can raise; only        *)
(* pipeline.start is inside the try.                                       *)
(***************************************************************************)
DriverCall(fn, args) == [fn |-> fn, args |-> args]

\* an exception of the driver that the code lets through unchanged
DriverError(fn, reason) ==
    [type |-> "RuntimeError", site |-> fn, msg |-> reason]

Steps_OpenFirst ==
    <<"context", "query_devices", "get_info", "pipeline", "check", "config",
      "enable_device", "enable_stream_depth", "enable_stream_color", "start",
      "get_intrinsics", "get_depth_scale", "return">>

\* the steps of connect() in program order: the driver calls, the check of
\* the enumeration ("check") and the end of the method ("return")
Steps ==
    <<"context", "query_devices", "get_info", "check", "pipeline", "config",
      "enable_device", "enable_stream_depth", "enable_stream_color", "start",
      "get_intrinsics", "get_depth_scale", "return">>

StepPositions ==
    [step \in {Steps[i] : i \in 1..Len(Steps)} |->
        CHOOSE i \in 1..Len(Steps) : Steps[i] = step]

\* the place of a step in the program order
Pos(step) == StepPositions[step]

\* the driver calls at which the environment can make the driver raise
\* (a raising start is StartOutcomes' business)
RaiseAt ==
    {"none", "context", "query_devices", "get_info", "pipeline", "config",
     "enable_device", "enable_stream_depth", "enable_stream_color",
     "get_intrinsics", "get_depth_scale"}

\* the driver calls that open and configure the pipeline
BeforeStart ==
    {"pipeline", "config", "enable_device", "enable_stream_depth",
     "enable_stream_color"}

\* the driver function called at a step
StepFn(step) ==
    IF step \in {"enable_stream_depth", "enable_stream_color"}
    THEN "enable_stream"
    ELSE step

\* what the driver says when it raises at a step
FailureReason(step) ==
    CASE step \in {"context", "query_devices", "pipeline", "config"}
            -> "backend failure"
      [] step = "get_info" -> "device disconnected"
      [] step = "enable_device" -> "bad serial"
      [] step \in {"enable_stream_depth", "enable_stream_color"}
            -> "bad stream request"
      [] OTHER -> "sensor gone"

\* connect() does not get past this step
Fails(step, devices, outcome, at) ==
    CASE step = "check" -> devices = <<>>
      [] step = "get_info" -> at = "get_info" /\ devices # <<>>
      [] step = "start" -> ~outcome.ok
      [] step = "return" -> TRUE
      [] OTHER -> step = at

\* the step at which connect() ends
ConnectStop(devices, outcome, at) ==
    LET failing == {i \in 1..Len(Steps) : Fails(Steps[i], devices, outcome, at)}
    IN  Steps[CHOOSE i \in failing : \A j \in failing : i <= j]

\* the step was completed before connect() ended
Passed(stop, step) == Pos(step) < Pos(stop)

StepCalls_Retry(step, id, w, h, f) ==
    CASE step = "start" -> <<DriverCall("start", <<>>), DriverCall("start", <<>>)>>
      [] step \in {"get_info", "check", "return"} -> <<>>
      [] step = "enable_device" -> <<DriverCall("enable_device", <<Str(id)>>)>>
      [] step = "enable_stream_depth" ->
            <<DriverCall("enable_stream",
                         <<"depth", Decimal(w), Decimal(h), "z16", Decimal(f)>>)>>
      [] step = "enable_stream_color" ->
            <<DriverCall("enable_stream",
                         <<"color", Decimal(w), Decimal(h), "rgb8", Decimal(f)>>)>>
      [] OTHER -> <<DriverCall(step, <<>>)>>

\* the driver calls the observer records for one step (the get_info reads
\* of get_available_devices are not recorded)
StepCalls(step, id, w, h, f) ==
    CASE step \in {"get_info", "check", "return"} -> <<>>
      [] step = "enable_device" -> <<DriverCall("enable_device", <<Str(id)>>)>>
      [] step = "enable_stream_depth" ->
            <<DriverCall("enable_stream",
                         <<"depth", Decimal(w), Decimal(h), "z16", Decimal(f)>>)>>
      [] step = "enable_stream_color" ->
            <<DriverCall("enable_stream",
                         <<"color", Decimal(w), Decimal(h), "rgb8", Decimal(f)>>)>>
      [] OTHER -> <<DriverCall(step, <<>>)>>

RECURSIVE CallsUpTo(_, _, _, _, _)
\* the driver calls of the first n steps
CallsUpTo(n, id, w, h, f) ==
    IF n = 0 THEN <<>>
    ELSE CallsUpTo(n - 1, id, w, h, f) \o StepCalls(Steps[n], id, w, h, f)

\* every driver call of a connect() that ends at `stop`, the raising call
\* included; id is the device selected, if the selection was reached
ConnectCalls(stop, id, w, h, f) ==
    CallsUpTo(Pos(stop), id, w, h, f)

\* the object rs.pipeline() returns: bound to no device until start
NewPipeline(n) ==
    [id |-> n, device |-> "", streams |-> {}, started |-> FALSE,
     depth_scale |-> 0]

\* the driver's pipeline object once start(config) was called on it
Pipeline(n, id, w, h, f, outcome) ==
    [id |-> n,
     device |-> Str(id),
     streams |-> {[kind |-> "depth", width |-> w, height |-> h,
                   format |-> "z16", fps |-> f],
                  [kind |-> "color", width |-> w, height |-> h,
                   format |-> "rgb8", fps |-> f]},
     started |-> outcome.ok,
     depth_scale |-> outcome.scale]

PyFloat(um) == [ty |-> "float", um |-> um]

\* how connect() ends
ConnectResult(stop, id, outcome) ==
    CASE stop = "return" -> Returned("connect", None)
      [] stop = "check" -> Raised("connect", NoDevicesError)
      [] stop = "start" ->
            Raised("connect", CouldNotConnectError(id, outcome.reason))
      [] OTHER ->
            Raised("connect", DriverError(StepFn(stop), FailureReason(stop)))

(***************************************************************************)
(* __init__                                                                *)
(***************************************************************************)
DeviceIds ==
    {None, PyStr("222"), PyStr("999"), PyInt(111)}

StreamConfigs ==
    {[width |-> DefaultWidth, height |-> DefaultHeight, fps |-> DefaultFps],
     [width |-> 1280, height |-> 720, fps |-> 15]}

Init ==
    /\ device_id \in DeviceIds
    /\ \E c \in StreamConfigs :
          /\ width = c.width
          /\ height = c.height
          /\ fps = c.fps
    /\ pipeline = None
    /\ scale = None
    /\ intrinsics = None
    /\ created = 0
    /\ acquired = 0
    /\ calls = <<>>
    /\ log = <<>>
    /\ result = Returned("__init__", None)
    /\ input = [op |-> "__init__"]

(***************************************************************************)
(* connect                                                                 *)
(***************************************************************************)
Connect(devices, outcome, at) ==
    \E stop \in {ConnectStop(devices, outcome, at)} :
    \E available \in {IF Passed(stop, "get_info")
                       THEN GetAvailableDevices(devices) ELSE <<>>} :
    \E selected \in {IF Passed(stop, "check")
                      THEN SelectDevice(device_id, available)
                      ELSE device_id} :
    LET enumerated == Passed(stop, "get_info")
        chosen == Passed(stop, "check")
        opened == Passed(stop, "pipeline")
        configured == Passed(stop, "enable_stream_color")
        started == Passed(stop, "start")
    IN  /\ opened => created < MaxPipelines
        /\ input' = [op |-> "connect", device_id |-> device_id,
                     enumerated |-> enumerated, available |-> available,
                     start |-> outcome, raise_at |-> at,
                     pipeline |-> pipeline]
        /\ calls' = ConnectCalls(stop, selected, width, height, fps)
        /\ result' = ConnectResult(stop, selected, outcome)
        /\ log' = (IF chosen THEN SelectionLog(device_id, available)
                   ELSE <<>>)
                  \o (IF started THEN <<ConnectedInfo(selected)>>
                      ELSE IF stop = "start"
                      THEN <<StartFailedError(outcome.reason)>>
                      ELSE <<>>)
        /\ device_id' = selected
        /\ pipeline' = IF ~opened THEN pipeline
                       ELSE IF ~configured THEN NewPipeline(created + 1)
                       ELSE Pipeline(created + 1, selected, width, height,
                                     fps, outcome)
        /\ created' = IF opened THEN created + 1 ELSE created
        /\ acquired' = IF opened THEN 0 ELSE acquired
        /\ intrinsics' = IF Passed(stop, "get_intrinsics")
                         THEN DriverIntrinsics(Str(selected), width, height)
                         ELSE intrinsics
        /\ scale' = IF Passed(stop, "get_depth_scale")
                    THEN PyFloat(outcome.scale)
                    ELSE scale
        /\ UNCHANGED <<width, height, fps>>

(***************************************************************************)
(* get_image_bundle                                                        *)
(***************************************************************************)
NoFrames(at, reason) ==
    [ok |-> FALSE, depth |-> <<>>, color |-> "", at |-> at, reason |-> reason]

NoWait == NoFrames("getattr", "no pipeline")

AlignFailedReason == "alignment failed"

\* what the driver can do in self.pipeline.wait_for_frames() and
\* align.process(frames), given self.pipeline; the depth data is the one of
\* the frame aligned to the color stream
WaitForFrames(p) ==
    IF p = None THEN {NoWait}
    ELSE IF ~p.started
    THEN {NoFrames("wait_for_frames", NotStartedReason)}
    ELSE {[ok |-> TRUE, depth |-> d, color |-> c, at |-> "", reason |-> ""] :
             d \in DepthFrames, c \in ColorFrames}
         \cup {NoFrames("wait_for_frames", TimeoutReason),
               NoFrames("align.process", AlignFailedReason)}

\* everything the driver can do, whatever the pipeline
WaitOutcomes ==
    UNION {WaitForFrames(p) :
              p \in {None,
                     [started |-> FALSE],
                     [started |-> TRUE]}}

\* depth_image *= self.scale with self.scale None: the left operand is the
\* float32 ndarray of np.asarray, so the exception is numpy's, out of the
\* in-place ufunc multiply (a subclass of TypeError; the text is numpy's and
\* may vary with its version)
ScaleTypeError ==
    [type |-> "TypeError", site |-> "get_image_bundle",
     msg |-> "Cannot cast ufunc 'multiply' output from dtype('O') to "
             \o "dtype('float32') with casting rule 'same_kind'"]

ScaleDepth_Twice(depth, s) ==
    [i \in DOMAIN depth |-> depth[i] * s * s]

\* depth_image = np.asarray(..., dtype=np.float32); depth_image *= self.scale
ScaleDepth(depth, s) ==
    [i \in DOMAIN depth |-> depth[i] * s]

\* np.expand_dims(depth_image, axis=2)
ExpandDims(image) ==
    [i \in DOMAIN image |-> <<image[i]>>]

ImageBundleResult_Swallow(p, w, s) ==
    IF p = None
    THEN Raised("get_image_bundle",
                AttributeError("NoneType", "wait_for_frames"))
    ELSE IF ~w.ok
    THEN Returned("get_image_bundle", None)
    ELSE IF s = None
    THEN Raised("get_image_bundle", ScaleTypeError)
    ELSE Returned("get_image_bundle",
                  [rgb |-> w.color,
                   aligned_depth |-> ExpandDims(ScaleDepth(w.depth, s.um))])

\* the outcome of get_image_bundle
ImageBundleResult(p, w, s) ==
    IF p = None
    THEN Raised("get_image_bundle",
                AttributeError("NoneType", "wait_for_frames"))
    ELSE IF ~w.ok
    THEN Raised("get_image_bundle", DriverError(w.at, w.reason))
    ELSE IF s = None
    THEN Raised("get_image_bundle", ScaleTypeError)
    ELSE Returned("get_image_bundle",
                  [rgb |-> w.color,
                   aligned_depth |-> ExpandDims(ScaleDepth(w.depth, s.um))])

\* the driver calls of one get_image_bundle()
BundleCalls(p, w) ==
    IF p = None THEN <<>>
    ELSE IF w.at = "wait_for_frames"
    THEN <<DriverCall("wait_for_frames", <<>>)>>
    ELSE <<DriverCall("wait_for_frames", <<>>),
           DriverCall("align.process", <<"color">>)>>

GetImageBundle(w) ==
    /\ acquired < MaxAcquires
    /\ w \in WaitForFrames(pipeline)
    /\ input' = [op |-> "get_image_bundle", wait |-> w,
                 after |-> [op |-> result.op, status |-> result.status]]
    /\ calls' = BundleCalls(pipeline, w)
    /\ log' = <<>>
    /\ result' = ImageBundleResult(pipeline, w, scale)
    /\ acquired' = IF w.ok /\ scale # None THEN acquired + 1 ELSE acquired
    /\ UNCHANGED <<fields, created>>

(***************************************************************************)
(* disconnect: the class defines no such method (nor any other that stops  *)
(* the pipeline), so the call is an attribute lookup that fails.           *)
(***************************************************************************)
Disconnect ==
    /\ input' = [op |-> "disconnect", pipeline |-> pipeline]
    /\ calls' = <<>>
    /\ log' = <<>>
    /\ result' = Raised("disconnect",
                        AttributeError("RealSenseCamera", "disconnect"))
    /\ UNCHANGED <<fields, created, acquired>>

\* a start that succeeds, for the calls that do not get as far as start
SomeStart == [ok |-> TRUE, scale |-> 1000, reason |-> ""]

\* what the driver does during one connect(), each behaviour once: what
\* happens after the step that ends the call makes no difference
DriverBehaviours ==
    {e \in [devices : Attached, start : StartOutcomes, at : RaiseAt] :
        /\ e.at \in {"context", "query_devices"} => e.devices = <<>>
        /\ e.devices = <<>> =>
              e.at \in {"none", "context", "query_devices"}
        /\ (e.devices = <<>> \/ e.at \in BeforeStart \cup {"get_info"}) =>
              e.start = SomeStart
        /\ ~e.start.ok => e.at = "none"}

Next ==
    \/ \E e \in DriverBehaviours : Connect(e.devices, e.start, e.at)
    \/ \E w \in WaitOutcomes : GetImageBundle(w)
    \/ Disconnect

Spec == Init /\ [][Next]_vars

(***************************************************************************)
(* Vocabulary of the properties.  `input` holds what the last call was     *)
(* given: the fields it read before it changed them, what the driver did   *)
(* during the call and, for get_image_bundle, how the call before it       *)
(* ended.                                                                  *)
(***************************************************************************)
AfterConnect == input.op = "connect"
AfterAcquire == input.op = "get_image_bundle"

\* the serials of the enumeration the last connect() saw
SeenSerials == [i \in 1..Len(input.available) |-> input.available[i].serial]

Requested == Str(input.device_id)

RequestedIsSeen == \E i \in 1..Len(SeenSerials) : SeenSerials[i] = Requested

Warnings == {i \in 1..Len(log) : log[i].level = "WARNING"}

CallsOf(fn) == {i \in 1..Len(calls) : calls[i].fn = fn}

\* the driver raised nowhere during the last connect()
DriverWorked == input.start.ok /\ input.raise_at = "none"

\* the last connect() handed this serial, and no other, to the driver, and
\* bound the pipeline to it when the driver raised nowhere
BoundTo(serial) ==
    /\ \A i \in CallsOf("enable_device") : calls[i].args = <<serial>>
    /\ Cardinality(CallsOf("enable_device")) <= 1
    /\ (pipeline # input.pipeline /\ pipeline.device # "") =>
          pipeline.device = serial
    /\ DriverWorked =>
          /\ pipeline # input.pipeline
          /\ pipeline.started
          /\ pipeline.device = serial
          /\ Cardinality(CallsOf("enable_device")) = 1

\* the last connect() failed only if the driver raised, and then with the
\* driver's failure
FailsOnlyWithDriver ==
    /\ DriverWorked => result = Returned("connect", None)
    /\ result.status = "raise" =>
          /\ result.exc # NoDevicesError
          /\ \/ ~input.start.ok
             \/ result.exc.msg = FailureReason(input.raise_at)

MismatchCase ==
    /\ AfterConnect
    /\ input.enumerated
    /\ input.available # <<>>
    /\ input.device_id # None
    /\ ~RequestedIsSeen

\* C1: when the enumeration is not empty and does not contain the requested
\* serial, connect() selects the device at index 0 and binds the pipeline to
\* it, logs exactly one warning, which names the requested serial and the
\* list of available serials, and does not fail because of the mismatch (it
\* returns normally unless the driver raises).
C1_MismatchFallsBackWithOneWarning ==
    MismatchCase =>
        /\ device_id = PyStr(input.available[1].serial)
        /\ BoundTo(input.available[1].serial)
        /\ Cardinality(Warnings) = 1
        /\ \A i \in Warnings :
              /\ log[i].requested = Requested
              /\ log[i].available = SeenSerials
        /\ FailsOnlyWithDriver

C1_Witness ==
    /\ MismatchCase
    /\ Len(input.available) = 2
    /\ Requested = "999"
    /\ result = Returned("connect", None)

UnsetCase ==
    /\ AfterConnect
    /\ input.enumerated
    /\ input.available # <<>>
    /\ input.device_id = None

\* C2: when the enumeration is not empty and device_id is None, connect()
\* binds the pipeline to the device at index 0 of the enumeration and logs no
\* warning.
C2_UnsetSelectsIndexZero ==
    UnsetCase =>
        /\ device_id = PyStr(input.available[1].serial)
        /\ BoundTo(input.available[1].serial)
        /\ Warnings = {}

C2_Witness ==
    /\ UnsetCase
    /\ Len(input.available) = 2
    /\ input.available[1].serial = "222"
    /\ result = Returned("connect", None)
    /\ pipeline.started

MatchCase ==
    /\ AfterConnect
    /\ input.enumerated
    /\ input.available # <<>>
    /\ input.device_id # None
    /\ RequestedIsSeen

\* C3: when the enumeration contains the requested serial, at whatever
\* position, connect() binds the pipeline to that serial, keeps device_id,
\* logs no warning and no fallback.
C3_MatchSelectsRequested ==
    MatchCase =>
        /\ BoundTo(Requested)
        /\ device_id = input.device_id
        /\ Warnings = {}
        /\ \A i \in 1..Len(log) : log[i].event # "using_first_available"

C3_Witness ==
    /\ MatchCase
    /\ input.device_id = PyStr("222")
    /\ Len(input.available) = 2
    /\ input.available[2].serial = "222"
    /\ result = Returned("connect", None)
    /\ pipeline.started

EmptyCase ==
    /\ AfterConnect
    /\ input.enumerated
    /\ input.available = <<>>

\* C4: with an empty enumeration connect() raises the no-devices error and
\* neither opens, configures nor starts a pipeline: self.pipeline is the one
\* from before the call and the driver saw the enumeration only.
C4_EmptyFailsWithoutPipeline ==
    EmptyCase =>
        /\ result = Raised("connect", NoDevicesError)
        /\ pipeline = input.pipeline
        /\ \A i \in 1..Len(calls) :
              calls[i].fn \in {"context", "query_devices"}

C4_Witness ==
    /\ EmptyCase
    /\ input.pipeline # None
    /\ input.pipeline.started

\* C5: a connect() that returns normally stores the scale the driver
\* reported for the pipeline it started; the stored scale changes in no other
\* call, get_image_bundle included; every pixel of every bundle is its raw
\* value times the stored scale, once, with one trailing channel.
C5_ScaledExactlyOnce ==
    /\ [](/\ (AfterConnect /\ result.status = "ok") =>
                /\ scale = PyFloat(input.start.scale)
                /\ pipeline.started
                /\ pipeline.depth_scale = input.start.scale
          /\ (AfterAcquire /\ result.status = "ok") =>
                \A i \in 1..NPix :
                   result.value.aligned_depth[i]
                      = <<input.wait.depth[i] * scale.um>>)
    /\ [][scale' # scale =>
            (input'.op = "connect" /\ result'.status = "ok")]_vars

C5_Witness ==
    /\ AfterAcquire
    /\ result.status = "ok"
    /\ acquired = 2
    /\ scale = PyFloat(1000)
    /\ input.wait.depth[1] = 2000
    /\ result.value.aligned_depth[1] = <<2000000>>

\* the driver's exception out of wait_for_frames, as a frame timeout
\* reaches the caller
IsFrameTimeout(e) == e.type = "RuntimeError" /\ e.site = "wait_for_frames"

\* the exceptions connect() raises itself
IsConnectError(e) == e.type = "RuntimeError" /\ e.site = "connect"

\* scale is assigned by the last statement of connect() and by nothing else,
\* and is never reset: it is None exactly when no connect() has returned
\* normally
NeverConnected == scale = None

\* C6: get_image_bundle without a prior successful connect() fails, with a
\* failure that is neither the frame timeout's nor a connect() failure.
C6_NotConnectedIsDistinct ==
    (AfterAcquire /\ NeverConnected) =>
        /\ result.status = "raise"
        /\ ~IsFrameTimeout(result.exc)
        /\ ~IsConnectError(result.exc)

\* the driver raised in pipeline.start
StartFailedCase ==
    /\ AfterConnect
    /\ input.enumerated
    /\ input.available # <<>>
    /\ input.raise_at \notin BeforeStart
    /\ ~input.start.ok

\* the driver raised while the pipeline was opened or configured
OpenFailedCase ==
    /\ AfterConnect
    /\ input.enumerated
    /\ input.available # <<>>
    /\ input.raise_at \in BeforeStart

\* C7 (as claimed): when the driver raises while the pipeline is opened,
\* configured or started, connect() raises its own could-not-connect error
\* and start was called once.
C7_DriverFailureWrappedOnce ==
    (StartFailedCase \/ OpenFailedCase) =>
        /\ result.status = "raise"
        /\ result.exc.site = "connect"
        /\ result.exc # NoDevicesError
        /\ Cardinality(CallsOf("start")) = 1

\* C7 (amended): when pipeline.start raises, connect() logs it and raises the
\* could-not-connect error carrying the selected serial and the driver's
\* reason, after one call of start; when the driver raises while the
\* pipeline is opened or configured, connect() lets the driver's exception
\* through as it is and start is not called.
C7_StartFailureWrappedOnce ==
    /\ StartFailedCase =>
          /\ result.status = "raise"
          /\ result.exc.type = "RuntimeError"
          /\ result.exc.msg = "Could not connect to camera " \o Str(device_id)
                                 \o ": " \o input.start.reason
          /\ Cardinality(CallsOf("start")) = 1
          /\ \E i \in 1..Len(log) : log[i].level = "ERROR"
    /\ OpenFailedCase =>
          /\ result = Raised("connect",
                             [type |-> "RuntimeError",
                              site |-> StepFn(input.raise_at),
                              msg |-> FailureReason(input.raise_at)])
          /\ CallsOf("start") = {}
          /\ \A i \in 1..Len(log) : log[i].level # "ERROR"

C7_Witness ==
    /\ StartFailedCase
    /\ input.start.reason = "Device or resource busy"
    /\ pipeline.device = "111"
    /\ Cardinality(CallsOf("start")) = 1

TimedOut ==
    /\ AfterAcquire
    /\ input.wait.reason = TimeoutReason

\* C8: a wait_for_frames timeout on a started pipeline makes
\* get_image_bundle raise the driver's timeout and leaves pipeline,
\* device_id, scale and intrinsics as they were; on an instance that has a
\* scale, a get_image_bundle that follows and gets a frame pair returns the
\* bundle of that frame pair.
C8_TimeoutKeepsConnection ==
    /\ [][TimedOut' =>
            /\ result' = Raised("get_image_bundle",
                                [type |-> "RuntimeError",
                                 site |-> "wait_for_frames",
                                 msg |-> TimeoutReason])
            /\ UNCHANGED <<pipeline, device_id, scale, intrinsics>>]_vars
    /\ [][(TimedOut /\ scale # None
              /\ input'.op = "get_image_bundle" /\ input'.wait.ok) =>
            /\ pipeline'.started
            /\ result'.status = "ok"
            /\ result'.value.rgb = input'.wait.color
            /\ \A i \in 1..NPix :
                  result'.value.aligned_depth[i]
                     = <<input'.wait.depth[i] * scale.um>>]_vars

C8_Witness ==
    /\ AfterAcquire
    /\ result.status = "ok"
    /\ input.after = [op |-> "get_image_bundle", status |-> "raise"]
    /\ result.value.aligned_depth[2] = <<65535 * 100>>

\* C9: no call changes device_id, width, height or fps.
C9_ConfigImmutable ==
    [][/\ device_id' = device_id
       /\ width' = width
       /\ height' = height
       /\ fps' = fps]_vars

\* C10: disconnect() does not fail and leaves no started pipeline behind.
C10_DisconnectReleases ==
    input.op = "disconnect" =>
        /\ result.status = "ok"
        /\ (pipeline = None \/ ~pipeline.started)

====
